---- MODULE Spec2Model ----
(***************************************************************************)
(* Model of the metaads repository: the LangGraph campaign workflow        *)
(* (supervisor / parser / creative / builder), the entry points that call  *)
(* it (process_campaign_request, app.py, api/campaign-python.py,           *)
(* api_bridge.py), the DeploymentMonitor threads and MetaAdsClient._request*)
(***************************************************************************)
EXTENDS Integers, Sequences, FiniteSets, TLC

VARIABLES
    wf,      \* the CampaignState dictionary threaded through the graph
    node,    \* graph position: the node about to execute, or END / RAISED
    runs,    \* number of executions of every node in this run
    req,     \* the request that started the run (entry point, env, body, argv)
    resp,    \* HTTP response written by the handler
    exc,     \* exceptions raised while handling the request
    out,     \* stdout and exit status of api_bridge.main
    metrics,     \* DeploymentMonitor.metrics, shared by the monitor threads
    monitoring,  \* DeploymentMonitor.monitoring
    hc,          \* the health-check thread: position, current check, result
    seen,        \* what a reader thread last read from metrics
    alert,       \* the alert thread: consecutive_failures, alert written
    cl,          \* MetaAdsClient and the _request call in progress
    clock,       \* seconds slept by the client between attempts
    rt,          \* call_api_with_retry: the tenacity call in progress
    ds           \* DeploymentSystem: environment, methods, deployment_status

wfVars == <<wf, node, runs, req, resp, exc, out>>

monVars == <<metrics, monitoring, hc, seen, alert>>

clVars == <<cl, clock>>

rtVars == <<rt>>

dsVars == <<ds>>

vars == <<wf, node, runs, req, resp, exc, out,
          metrics, monitoring, hc, seen, alert, cl, clock, rt, ds>>

----------------------------------------------------------------------------
(* Abstract values of the state fields and of the LLM outputs.             *)

\* user_request / message: "" | ordinary text | text whose "$" is followed
\* by no token | a truthy non-string JSON value | not given
Messages == {"absent", "empty", "text", "dollar", "nonstr"}

\* campaign_objective: None | "" | a key of objective_ctas | any other value
Objectives == {"none", "empty", "valid", "invalid"}

\* budget: None | < 5 | 5..50 | > 50 | not a number
Budgets == {"none", "low", "mid", "high", "bad"}

\* target_audience: None | {} | a non-empty dict | a truthy non-dict
Audiences == {"none", "empty", "dict", "bad"}

Nodes == {"supervisor", "parser", "creative", "builder"}

Ret(s) == [st |-> s, exc |-> FALSE]

Raise(s) == [st |-> s, exc |-> TRUE]

initialize_state(user_request) ==
    [ user_request       |-> user_request,
      campaign_objective |-> "none",
      budget             |-> "none",
      target_audience    |-> "none",
      ad_creative        |-> "none",
      ad_variations      |-> FALSE,
      campaign_plan      |-> FALSE,
      processing_status  |-> "initializing",
      messages           |-> << >>,
      errors             |-> << >>,
      warnings           |-> 0,
      current_agent      |-> "supervisor",
      next_agent         |-> "None" ]

add_message(s, content) == [s EXCEPT !.messages = Append(@, content)]

\* field not in state or state[field] is None
FieldMissing(s, field) ==
    CASE field = "campaign_objective" -> s.campaign_objective = "none"
      [] field = "budget"             -> s.budget = "none"
      [] field = "target_audience"    -> s.target_audience = "none"
      [] field = "ad_creative"        -> s.ad_creative = "none"
      [] field = "campaign_plan"      -> ~s.campaign_plan
      [] field = "user_request"       -> s.user_request = "absent"

validate_required_fields(s, required) ==
    IF \E f \in required : FieldMissing(s, f)
    THEN [st |-> [s EXCEPT !.errors = Append(@, "missing_required_fields")],
          ok |-> FALSE]
    ELSE [st |-> s, ok |-> TRUE]

\* Python truthiness of the fields the supervisor tests
Truthy_objective(s) == s.campaign_objective \in {"valid", "invalid"}

Truthy_audience(s) == s.target_audience \in {"dict", "bad"}

Truthy_creative(s) == s.ad_creative # "none"

----------------------------------------------------------------------------
(* BaseMarketingAgent.__call__                                             *)

AgentError(name) == "agent_" \o name

\* variant: the handler sets the status but drops the error string
OnError_no_append(name, s) ==
    [s EXCEPT !.processing_status = "error"]

OnError(name, s) ==
    [s EXCEPT !.errors = Append(@, AgentError(name)),
              !.processing_status = "error"]

Enter(name, s) == [s EXCEPT !.current_agent = name]

\* r is the outcome of process(Enter(name, s)); the logging of
\* state.get("user_request", "")[:100] raises first for a non-string request
AgentCall(name, s, r) ==
    IF s.user_request \in {"nonstr", "absent"}
    THEN OnError(name, s)
    ELSE IF r.exc THEN OnError(name, r.st) ELSE r.st

----------------------------------------------------------------------------
(* SupervisorAgent                                                         *)

ErrorLimit == 2

\* variant: the creative check ahead of the parsed-data check
determine_next_agent_creative_first(s) ==
    IF Len(s.errors) > ErrorLimit THEN "END"
    ELSE IF s.processing_status = "complete" THEN "END"
    ELSE IF ~Truthy_creative(s) THEN "creative"
    ELSE IF ~( Truthy_objective(s) /\ s.budget # "none" /\ Truthy_audience(s) )
         THEN "parser"
    ELSE IF ~s.campaign_plan THEN "builder"
    ELSE "END"

\* variant: the error check is >= 2 errors later
determine_next_agent_lenient(s) ==
    IF Len(s.errors) > ErrorLimit + 2 THEN "END"
    ELSE IF s.processing_status = "complete" THEN "END"
    ELSE IF ~( Truthy_objective(s) /\ s.budget # "none" /\ Truthy_audience(s) )
         THEN "parser"
    ELSE IF ~Truthy_creative(s) THEN "creative"
    ELSE IF ~s.campaign_plan THEN "builder"
    ELSE "END"

\* variant: the number of errors is not looked at
determine_next_agent_no_error_check(s) ==
    IF s.processing_status = "complete" THEN "END"
    ELSE IF ~( Truthy_objective(s) /\ s.budget # "none" /\ Truthy_audience(s) )
         THEN "parser"
    ELSE IF ~Truthy_creative(s) THEN "creative"
    ELSE IF ~s.campaign_plan THEN "builder"
    ELSE "END"

determine_next_agent(s) ==
    IF Len(s.errors) > ErrorLimit THEN "END"
    ELSE IF s.processing_status = "complete" THEN "END"
    ELSE IF ~( Truthy_objective(s) /\ s.budget # "none" /\ Truthy_audience(s) )
         THEN "parser"
    ELSE IF ~Truthy_creative(s) THEN "creative"
    ELSE IF ~s.campaign_plan THEN "builder"
    ELSE "END"

SupervisorProcess(s) ==
    LET s0 == IF s.processing_status = "none"
              THEN [s EXCEPT !.processing_status = "initializing",
                             !.messages = << >>, !.errors = << >>,
                             !.warnings = 0]
              ELSE s
        next_agent == determine_next_agent(s0)
    IN  IF next_agent = "END"
        THEN Ret(add_message([s0 EXCEPT !.processing_status = "complete",
                                        !.next_agent = "None"],
                             "plan_ready"))
        ELSE Ret([s0 EXCEPT !.next_agent = next_agent])

validate_completeness(s) ==
    \A f \in {"campaign_objective", "budget", "target_audience",
              "ad_creative", "campaign_plan"} : ~FieldMissing(s, f)

\* variant: the END decision is routed back to the supervisor
route_supervisor_loops(s) ==
    IF s.next_agent = "END" \/ s.next_agent = "None" THEN "supervisor"
    ELSE s.next_agent

route_supervisor(s) ==
    IF s.next_agent = "END" \/ s.next_agent = "None" THEN "END"
    ELSE s.next_agent

----------------------------------------------------------------------------
(* CampaignParserAgent                                                     *)

\* what parse_campaign_request can hand back: each field of the JSON object
\* is missing/None, well-formed, or of the wrong shape
ParsedData ==
    [ campaign_objective : Objectives,
      budget             : Budgets,
      target_audience    : Audiences \cup {"absent"},
      warnings           : {"absent", "list", "bad"} ]

merge_parsed_data(s, pd) ==
    LET s1 == IF pd.campaign_objective # "none"
              THEN [s EXCEPT !.campaign_objective = pd.campaign_objective]
              ELSE s
        s2 == IF pd.budget # "none"
              THEN [s1 EXCEPT !.budget = pd.budget]
              ELSE s1
        s3 == IF pd.target_audience # "absent"
              THEN [s2 EXCEPT !.target_audience = pd.target_audience]
              ELSE s2
    IN  CASE pd.warnings = "absent" -> Ret(s3)
          [] pd.warnings = "list"   -> Ret([s3 EXCEPT !.warnings = @ + 1])
          [] pd.warnings = "bad"    -> Raise(s3)

BudgetTooLow == "budget_too_low"

validate_parsed_data(s) ==
    LET s1 == IF ~Truthy_objective(s)
              THEN [s EXCEPT !.warnings = @ + 1,
                             !.campaign_objective = "valid"]
              ELSE s
    IN  CASE s1.budget = "none" ->
               [st |-> [s1 EXCEPT !.errors = Append(@, "budget_required")],
                ok |-> FALSE, exc |-> FALSE]
          [] s1.budget = "bad" ->
               [st |-> s1, ok |-> FALSE, exc |-> TRUE]
          [] s1.budget = "low" ->
               [st |-> [s1 EXCEPT !.errors = Append(@, BudgetTooLow)],
                ok |-> FALSE, exc |-> FALSE]
          [] OTHER ->
               [st |-> IF ~Truthy_audience(s1)
                       THEN [s1 EXCEPT !.target_audience = "dict",
                                       !.warnings = @ + 1]
                       ELSE s1,
                ok |-> TRUE, exc |-> FALSE]

ParserFailed(s) ==
    [s EXCEPT !.errors = Append(@, "failed_to_parse"),
              !.next_agent = "supervisor"]

ParserProcess(s, pd) ==
    IF s.user_request = "empty"
    THEN Ret([s EXCEPT !.errors = Append(@, "no_user_request")])
    ELSE
      LET s1 == [s EXCEPT !.processing_status = "parsing"]
          m  == merge_parsed_data(s1, pd)
          v  == validate_parsed_data(m.st)
      IN  IF m.exc THEN Ret(ParserFailed(m.st))
          ELSE IF v.exc THEN Ret(ParserFailed(v.st))
          ELSE IF v.ok
               THEN Ret([add_message(v.st, "understood")
                            EXCEPT !.next_agent = "supervisor"])
               ELSE Ret([v.st EXCEPT !.warnings = @ + 1,
                                     !.next_agent = "supervisor"])

----------------------------------------------------------------------------
(* CreativeGeneratorAgent                                                  *)

\* where the try block of process() can leave: it completes, or an
\* exception is raised before / after  state["ad_creative"] = creative
TryOutcomes == {"ok", "raise_before", "raise_after"}

\* objective_ctas[objective][0] raises KeyError for an unknown objective,
\* in _optimize_creative and in _get_fallback_creative alike
CreativeOutcomes(s) ==
    IF s.campaign_objective # "valid" THEN {"raise_before"}
    ELSE IF s.budget = "bad" THEN {"raise_before", "raise_after"}
    ELSE TryOutcomes

get_fallback_creative(s) ==
    IF s.campaign_objective = "valid"
    THEN Ret([s EXCEPT !.ad_creative = "fallback"])
    ELSE Raise(s)

CreativeFailed(s) ==
    LET f == get_fallback_creative(
                 [s EXCEPT !.errors = Append(@, "failed_to_generate_creative")])
    IN  IF f.exc THEN f
        ELSE Ret([f.st EXCEPT !.next_agent = "supervisor"])

\* o: outcome of the try block; v: whether _create_variations had returned
CreativeProcess(s, o, v) ==
    LET chk == validate_required_fields(
                   s, {"campaign_objective", "target_audience", "user_request"})
    IN  IF ~chk.ok THEN Ret([chk.st EXCEPT !.next_agent = "supervisor"])
        ELSE IF s.target_audience = "bad" THEN Raise(s)
        ELSE
          LET s1 == [s EXCEPT !.processing_status = "creating"]
              s2 == [s1 EXCEPT !.ad_creative = "llm"]
              s3 == IF s.budget = "high" /\ v
                    THEN [s2 EXCEPT !.ad_variations = TRUE]
                    ELSE s2
          IN  CASE o = "ok" ->
                     Ret([add_message(
                             IF s.budget = "high"
                             THEN [s2 EXCEPT !.ad_variations = TRUE] ELSE s2,
                             "creative_ready")
                          EXCEPT !.next_agent = "supervisor"])
                [] o = "raise_before" -> CreativeFailed(s1)
                [] o = "raise_after"  -> CreativeFailed(s3)

----------------------------------------------------------------------------
(* CampaignBuilderAgent                                                    *)

BuilderOutcomes(s) ==
    IF s.campaign_objective # "valid" \/ s.target_audience = "bad"
    THEN {"raise_before"}
    ELSE IF s.budget = "bad" THEN {"raise_before", "raise_after"}
    ELSE TryOutcomes

BuilderFailed(s) ==
    [s EXCEPT !.errors = Append(@, "failed_to_build_campaign"),
              !.next_agent = "supervisor"]

BuilderProcess(s, o) ==
    LET chk == validate_required_fields(
                   s, {"campaign_objective", "budget", "target_audience",
                       "ad_creative"})
    IN  IF ~chk.ok THEN Ret([chk.st EXCEPT !.next_agent = "supervisor"])
        ELSE
          LET s1 == [s EXCEPT !.processing_status = "building"]
              s2 == [s1 EXCEPT !.campaign_plan = TRUE]
          IN  CASE o = "ok" ->
                     Ret([add_message(s2, "campaign_summary")
                          EXCEPT !.next_agent = "supervisor"])
                [] o = "raise_before" -> Ret(BuilderFailed(s1))
                [] o = "raise_after"  -> Ret(BuilderFailed(s2))

----------------------------------------------------------------------------
(* The compiled graph: supervisor is the entry point, its conditional     *)
(* edge follows route_supervisor, every specialist returns to supervisor.  *)

NoRuns == [n \in Nodes |-> 0]

Executed(n) == runs' = [runs EXCEPT ![n] = @ + 1]

\* which part of __call__ raised in the node that has just executed
Raised(s, r) ==
    IF s.user_request \in {"nonstr", "absent"} THEN "call"
    ELSE IF r.exc THEN "process" ELSE "none"

RunAgent(name, r) ==
    /\ wf' = AgentCall(name, wf, r)
    /\ exc' = [exc EXCEPT !.agent = Raised(wf, r)]
    /\ Executed(name)
    /\ UNCHANGED <<req, resp, out>>
    /\ UNCHANGED <<monVars, clVars, rtVars, dsVars>>

SupervisorNode ==
    /\ node = "supervisor"
    /\ RunAgent("supervisor", SupervisorProcess(Enter("supervisor", wf)))
    /\ node' = route_supervisor(wf')

ParserNode ==
    /\ node = "parser"
    /\ \E pd \in ParsedData :
          RunAgent("parser", ParserProcess(Enter("parser", wf), pd))
    /\ node' = "supervisor"

CreativeNode ==
    /\ node = "creative"
    /\ \E o \in CreativeOutcomes(wf), v \in BOOLEAN :
          RunAgent("creative", CreativeProcess(Enter("creative", wf), o, v))
    /\ node' = "supervisor"

BuilderNode ==
    /\ node = "builder"
    /\ \E o \in BuilderOutcomes(wf) :
          RunAgent("builder", BuilderProcess(Enter("builder", wf), o))
    /\ node' = "supervisor"

----------------------------------------------------------------------------
(* Entry points                                                            *)

NoReq == [entry |-> "none", key |-> "unset", body |-> "none",
          msg |-> "absent", argv |-> << >>]

NoResp == [status |-> 0, kind |-> "none", error |-> FALSE, details |-> "none"]

NoExc == [ai |-> FALSE, outer |-> "none", agent |-> "none"]

NoOut == [stdout |-> << >>, exit |-> -1]

\* OPENAI_API_KEY: unset (or ""), the placeholder of the sample .env, a key
Keys == {"unset", "placeholder", "real"}

\* request body: not JSON at all, JSON that is not an object, an object
Bodies == {"invalid", "notobject", "object"}

\* variant: `message is None` in place of `not message`
MessageMissing_none_only(m) == m = "absent"

\* `not message`
MessageMissing(m) == m \in {"absent", "empty"}

\* variant: the handler answers 500 without the exception text
ErrorResponse_no_details(text) ==
    [status |-> 500, kind |-> "error", error |-> TRUE, details |-> "none"]

ErrorResponse(text) ==
    [status |-> 500, kind |-> "error", error |-> TRUE, details |-> text]

AiResponse ==
    [status |-> 200, kind |-> "ai", error |-> FALSE, details |-> "none"]

StartWorkflow(m) ==
    /\ wf' = initialize_state(m)
    /\ node' = "supervisor"
    /\ runs' = NoRuns

\* process_campaign_request called directly (as the tests do)
ProcessCampaignRequest ==
    /\ node = "idle"
    /\ \E m \in {"empty", "text"} :
          /\ req' = [NoReq EXCEPT !.entry = "direct", !.msg = m]
          /\ StartWorkflow(m)
    /\ UNCHANGED <<resp, exc, out>>
    /\ UNCHANGED <<monVars, clVars, rtVars, dsVars>>

\* the import of the workflow, the event loop or the graph runtime fails
WorkflowRaises ==
    /\ node = "supervisor"
    /\ runs = NoRuns
    /\ node' = "RAISED"
    /\ exc' = IF req.entry = "app" THEN [exc EXCEPT !.ai = TRUE]
              ELSE [exc EXCEPT !.outer = "workflow_error"]
    /\ UNCHANGED <<wf, runs, req, resp, out>>
    /\ UNCHANGED <<monVars, clVars, rtVars, dsVars>>

DirectReturn ==
    /\ node = "END"
    /\ req.entry = "direct"
    /\ node' = "done"
    /\ UNCHANGED <<wf, runs, req, resp, exc, out>>
    /\ UNCHANGED <<monVars, clVars, rtVars, dsVars>>

(* app.py: create_campaign *)

\* variant: the placeholder key is not excluded
app_use_ai_any_key(key) == key # "unset"

app_use_ai(key) == key = "real"

\* the demo branch: "$" in message raises for a non-string, and
\* parts[1].split()[0] raises when nothing follows the "$"
DemoException(m) ==
    CASE m = "nonstr" -> "type_error"
      [] m = "dollar" -> "index_error"
      [] OTHER        -> "none"

AppDemo(m) ==
    IF DemoException(m) # "none"
    THEN ErrorResponse(DemoException(m))
    ELSE [status |-> 200, kind |-> "demo", error |-> FALSE, details |-> "none"]

AppBodyException(body) ==
    CASE body = "invalid"   -> "bad_request"
      [] body = "notobject" -> "attribute_error"
      [] OTHER              -> "none"

AppCreateCampaign ==
    /\ node = "idle"
    /\ \E body \in Bodies, key \in Keys, m \in Messages :
        /\ body # "object" => m = "absent"
        /\ req' = [NoReq EXCEPT !.entry = "app", !.key = key,
                                !.body = body, !.msg = m]
        /\ IF AppBodyException(body) # "none"
           THEN /\ resp' = ErrorResponse(AppBodyException(body))
                /\ exc' = [exc EXCEPT !.outer = AppBodyException(body)]
                /\ node' = "done"
                /\ UNCHANGED <<wf, runs>>
           ELSE IF MessageMissing(m)
           THEN /\ resp' = [status |-> 400, kind |-> "reject",
                            error |-> TRUE, details |-> "none"]
                /\ node' = "done"
                /\ UNCHANGED <<wf, runs, exc>>
           ELSE IF app_use_ai(key)
           THEN /\ StartWorkflow(m)
                /\ UNCHANGED <<resp, exc>>
           ELSE /\ resp' = AppDemo(m)
                /\ exc' = [exc EXCEPT !.outer = DemoException(m)]
                /\ node' = "done"
                /\ UNCHANGED <<wf, runs>>
    /\ UNCHANGED out
    /\ UNCHANGED <<monVars, clVars, rtVars, dsVars>>

AppFinish ==
    /\ node = "END"
    /\ req.entry = "app"
    /\ resp' = AiResponse
    /\ node' = "done"
    /\ UNCHANGED <<wf, runs, req, exc, out>>
    /\ UNCHANGED <<monVars, clVars, rtVars, dsVars>>

\* except Exception as ai_error: print and fall through to demo mode
AppFallback ==
    /\ node = "RAISED"
    /\ req.entry = "app"
    /\ resp' = AppDemo(req.msg)
    /\ exc' = [exc EXCEPT !.outer = DemoException(req.msg)]
    /\ node' = "done"
    /\ UNCHANGED <<wf, runs, req, out>>
    /\ UNCHANGED <<monVars, clVars, rtVars, dsVars>>

(* api/campaign-python.py: handler.do_POST *)

vercel_use_ai(key) == key # "unset"

VercelBodyException(body) ==
    CASE body = "invalid"   -> "json_decode_error"
      [] body = "notobject" -> "attribute_error"
      [] OTHER              -> "none"

VercelPost ==
    /\ node = "idle"
    /\ \E body \in Bodies, key \in Keys, m \in Messages :
        /\ body # "object" => m = "absent"
        /\ req' = [NoReq EXCEPT !.entry = "vercel", !.key = key,
                                !.body = body, !.msg = m]
        /\ IF VercelBodyException(body) # "none"
           THEN /\ resp' = ErrorResponse(VercelBodyException(body))
                /\ exc' = [exc EXCEPT !.outer = VercelBodyException(body)]
                /\ node' = "done"
                /\ UNCHANGED <<wf, runs>>
           ELSE IF MessageMissing(m)
           THEN /\ resp' = [status |-> 400, kind |-> "reject",
                            error |-> FALSE, details |-> "none"]
                /\ node' = "done"
                /\ UNCHANGED <<wf, runs, exc>>
           ELSE IF ~vercel_use_ai(key)
           THEN /\ resp' = [status |-> 200, kind |-> "demo",
                            error |-> FALSE, details |-> "none"]
                /\ node' = "done"
                /\ UNCHANGED <<wf, runs, exc>>
           ELSE /\ StartWorkflow(m)
                /\ UNCHANGED <<resp, exc>>
    /\ UNCHANGED out
    /\ UNCHANGED <<monVars, clVars, rtVars, dsVars>>

VercelFinish ==
    /\ node = "END"
    /\ req.entry = "vercel"
    /\ resp' = AiResponse
    /\ node' = "done"
    /\ UNCHANGED <<wf, runs, req, exc, out>>
    /\ UNCHANGED <<monVars, clVars, rtVars, dsVars>>

VercelFail ==
    /\ node = "RAISED"
    /\ req.entry = "vercel"
    /\ resp' = ErrorResponse(exc.outer)
    /\ node' = "done"
    /\ UNCHANGED <<wf, runs, req, exc, out>>
    /\ UNCHANGED <<monVars, clVars, rtVars, dsVars>>

(* src/agents/api_bridge.py: main *)

MaxArgs == 2

ArgTokens == {"--message", "--user_id", "text", ""}

ArgLists == UNION { [1..n -> ArgTokens] : n \in 0..MaxArgs }

\* for i in range(0, len(args), 2): a flag counts only at an even index
\* and only when a value follows it (i is 1-based here)
RECURSIVE ParseArgs(_, _, _)
ParseArgs(args, i, message) ==
    IF i > Len(args) THEN message
    ELSE ParseArgs(args, i + 2,
                   IF args[i] = "--message" /\ i + 1 <= Len(args)
                   THEN args[i + 1]
                   ELSE message)

ParsedMessage(args) == ParseArgs(args, 1, "None")

HasMessageFlag(args) == \E i \in 1..Len(args) : args[i] = "--message"

BridgeNoMessage ==
    [success |-> "absent", error |-> TRUE, campaign_id |-> FALSE,
     executionTime |-> FALSE]

BridgeSuccess ==
    [success |-> "true", error |-> FALSE, campaign_id |-> TRUE,
     executionTime |-> TRUE]

\* variant: the except branch prints the error without the success key
BridgeError_no_success_key ==
    [success |-> "absent", error |-> TRUE, campaign_id |-> FALSE,
     executionTime |-> FALSE]

BridgeError ==
    [success |-> "false", error |-> TRUE, campaign_id |-> FALSE,
     executionTime |-> FALSE]

PrintLine(o, line) == [o EXCEPT !.stdout = Append(@, line)]

BridgeMain ==
    /\ node = "idle"
    /\ \E args \in ArgLists :
        /\ req' = [NoReq EXCEPT !.entry = "bridge", !.argv = args,
                     !.msg = IF ParsedMessage(args) \in {"None", ""}
                             THEN "absent" ELSE "text"]
        /\ IF ParsedMessage(args) \in {"None", ""}
           THEN /\ out' = [PrintLine(out, BridgeNoMessage) EXCEPT !.exit = 1]
                /\ node' = "done"
                /\ UNCHANGED <<wf, runs>>
           ELSE /\ StartWorkflow("text")
                /\ UNCHANGED out
    /\ UNCHANGED <<resp, exc>>
    /\ UNCHANGED <<monVars, clVars, rtVars, dsVars>>

BridgeFinish ==
    /\ node = "END"
    /\ req.entry = "bridge"
    /\ out' = [PrintLine(out, BridgeSuccess) EXCEPT !.exit = 0]
    /\ node' = "done"
    /\ UNCHANGED <<wf, runs, req, resp, exc>>
    /\ UNCHANGED <<monVars, clVars, rtVars, dsVars>>

BridgeFail ==
    /\ node = "RAISED"
    /\ req.entry = "bridge"
    /\ out' = [PrintLine(out, BridgeError) EXCEPT !.exit = 1]
    /\ node' = "done"
    /\ UNCHANGED <<wf, runs, req, resp, exc>>
    /\ UNCHANGED <<monVars, clVars, rtVars, dsVars>>

----------------------------------------------------------------------------

WfInit ==
    /\ wf = initialize_state("absent")
    /\ node = "idle"
    /\ runs = NoRuns
    /\ req = NoReq
    /\ resp = NoResp
    /\ exc = NoExc
    /\ out = NoOut

----------------------------------------------------------------------------
(* ultrathink_monitor.py: DeploymentMonitor                                *)

MaxChecks == 3

HistoryLimit == 100

Statuses == {"healthy", "unhealthy", "error"}

Readers == {"reporter", "alerter", "dashboard"}

NewMetrics ==
    [checks_performed |-> 0, failures |-> 0, last_check |-> FALSE,
     status_history |-> << >>]

LastN(h, n) == IF Len(h) > n THEN SubSeq(h, Len(h) - n + 1, Len(h)) ELSE h

get_overall_status(m) ==
    LET recent == LastN(m.status_history, 10)
        healthy_count ==
            Cardinality({i \in 1..Len(recent) : recent[i] = "healthy"})
    IN  IF m.status_history = << >> THEN "unknown"
        ELSE IF healthy_count >= 8 THEN "healthy"
        ELSE IF healthy_count >= 5 THEN "degraded"
        ELSE "unhealthy"

\* _record_check_result is in progress
Updating == hc.pc \in {"L417", "L419", "L423", "L430"}

Snapshot(r) ==
    [reader |-> r,
     checks_performed |-> metrics.checks_performed,
     failures |-> metrics.failures,
     history_len |-> Len(metrics.status_history),
     status |-> get_overall_status(metrics),
     during_update |-> Updating]

NoSnapshot ==
    [reader |-> "none", checks_performed |-> 0, failures |-> 0,
     history_len |-> 0, status |-> "unknown", during_update |-> FALSE]

MonInit ==
    /\ metrics = NewMetrics
    /\ monitoring = TRUE
    /\ hc = [pc |-> "idle", i |-> 0, n |-> 0, status |-> "none"]
    /\ seen = NoSnapshot
    /\ alert = [consecutive_failures |-> 0, sent |-> FALSE]

\* start_monitoring: _setup_health_checks registers 2 to 4 checks, then the
\* threads are started
StartMonitoring ==
    /\ hc.pc = "idle"
    /\ \E n \in 2..4 : hc' = [hc EXCEPT !.pc = "loop", !.n = n]
    /\ UNCHANGED <<metrics, monitoring, seen, alert>>
    /\ UNCHANGED <<wfVars, clVars, rtVars, dsVars>>

\* while self.monitoring: for check in self.health_checks
HealthLoop ==
    /\ hc.pc = "loop"
    /\ hc' = IF monitoring THEN [hc EXCEPT !.pc = "check", !.i = 1]
             ELSE [hc EXCEPT !.pc = "stopped"]
    /\ UNCHANGED <<metrics, monitoring, seen, alert>>
    /\ UNCHANGED <<wfVars, clVars, rtVars, dsVars>>

\* result = check["func"](), or the except branch with status "error"
RunCheck ==
    /\ hc.pc = "check"
    /\ metrics.checks_performed < MaxChecks
    /\ \E st \in Statuses : hc' = [hc EXCEPT !.pc = "L416", !.status = st]
    /\ UNCHANGED <<metrics, monitoring, seen, alert>>
    /\ UNCHANGED <<wfVars, clVars, rtVars, dsVars>>

Rec416 ==
    /\ hc.pc = "L416"
    /\ metrics' = [metrics EXCEPT !.checks_performed = @ + 1]
    /\ hc' = [hc EXCEPT !.pc = "L417"]
    /\ UNCHANGED <<monitoring, seen, alert>>
    /\ UNCHANGED <<wfVars, clVars, rtVars, dsVars>>

Rec417 ==
    /\ hc.pc = "L417"
    /\ metrics' = [metrics EXCEPT !.last_check = TRUE]
    /\ hc' = [hc EXCEPT !.pc = "L419"]
    /\ UNCHANGED <<monitoring, seen, alert>>
    /\ UNCHANGED <<wfVars, clVars, rtVars, dsVars>>

Rec419 ==
    /\ hc.pc = "L419"
    /\ metrics' = IF hc.status # "healthy"
                  THEN [metrics EXCEPT !.failures = @ + 1]
                  ELSE metrics
    /\ hc' = [hc EXCEPT !.pc = "L423"]
    /\ UNCHANGED <<monitoring, seen, alert>>
    /\ UNCHANGED <<wfVars, clVars, rtVars, dsVars>>

Rec423 ==
    /\ hc.pc = "L423"
    /\ metrics' = [metrics EXCEPT !.status_history = Append(@, hc.status)]
    /\ hc' = [hc EXCEPT !.pc = "L430"]
    /\ UNCHANGED <<monitoring, seen, alert>>
    /\ UNCHANGED <<wfVars, clVars, rtVars, dsVars>>

\* keep only recent history, then the next check of the round or the sleep
Rec430 ==
    /\ hc.pc = "L430"
    /\ metrics' = [metrics EXCEPT
                     !.status_history = LastN(@, HistoryLimit)]
    /\ hc' = IF hc.i < hc.n
             THEN [hc EXCEPT !.pc = "check", !.i = @ + 1]
             ELSE [hc EXCEPT !.pc = "loop", !.i = 0]
    /\ UNCHANGED <<monitoring, seen, alert>>
    /\ UNCHANGED <<wfVars, clVars, rtVars, dsVars>>

Started == hc.pc # "idle"

\* variant: the reporter resets the failure counter after reporting
MetricsReport_resetting ==
    /\ Started /\ monitoring
    /\ seen' = Snapshot("reporter")
    /\ metrics' = [metrics EXCEPT !.failures = 0]
    /\ UNCHANGED <<monitoring, hc, alert>>
    /\ UNCHANGED <<wfVars, clVars, rtVars, dsVars>>

\* _metrics_reporter_loop: _generate_metrics_report
MetricsReport ==
    /\ Started /\ monitoring
    /\ seen' = Snapshot("reporter")
    /\ UNCHANGED <<metrics, monitoring, hc, alert>>
    /\ UNCHANGED <<wfVars, clVars, rtVars, dsVars>>

AlertStep(a, status) ==
    IF status = "unhealthy"
    THEN IF a.consecutive_failures + 1 >= 3
         THEN [consecutive_failures |-> 0, sent |-> TRUE]
         ELSE [a EXCEPT !.consecutive_failures = @ + 1]
    ELSE [a EXCEPT !.consecutive_failures = 0]

\* _alert_loop
AlertCheck ==
    /\ Started /\ monitoring
    /\ seen' = Snapshot("alerter")
    /\ alert' = AlertStep(alert, get_overall_status(metrics))
    /\ UNCHANGED <<metrics, monitoring, hc>>
    /\ UNCHANGED <<wfVars, clVars, rtVars, dsVars>>

\* the main thread: _display_dashboard every 5 seconds
DisplayDashboard ==
    /\ Started /\ monitoring
    /\ seen' = Snapshot("dashboard")
    /\ UNCHANGED <<metrics, monitoring, hc, alert>>
    /\ UNCHANGED <<wfVars, clVars, rtVars, dsVars>>

\* _signal_handler
SignalHandler ==
    /\ Started /\ monitoring
    /\ monitoring' = FALSE
    /\ UNCHANGED <<metrics, hc, seen, alert>>
    /\ UNCHANGED <<wfVars, clVars, rtVars, dsVars>>

----------------------------------------------------------------------------
(* lib/sdk/python-client.py: MetaAdsClient._request                        *)

MaxRetryAttempts == 3

MaxCalls == 3

RetryDelay == 1

AttemptOutcomes == {"ok", "http_error", "network_error", "value_error"}

NoError == [kind |-> "none", status_code |-> -1, error_code |-> "None"]

NewClient(retry_attempts) ==
    [retry_attempts |-> retry_attempts, pc |-> "idle", attempt |-> 0,
     sent |-> 0, network_errors |-> 0, calls |-> 0, error |-> NoError,
     burst |-> 0]

RECURSIVE Pow2(_)
Pow2(n) == IF n = 0 THEN 1 ELSE 2 * Pow2(n - 1)

\* variant: off by one, the last retry is given up
IsLastAttempt_early(attempt, retry_attempts) == attempt >= retry_attempts - 1

\* if attempt == self.retry_attempts
IsLastAttempt(attempt, retry_attempts) == attempt = retry_attempts

ClIdleInit ==
    /\ cl = NewClient(3)
    /\ clock = 0

ClInit ==
    /\ \E n \in 0..MaxRetryAttempts : cl = NewClient(n)
    /\ clock = 0

\* entering _request: for attempt in range(1, self.retry_attempts + 1)
Request ==
    /\ cl.pc \in {"idle", "returned", "raised"}
    /\ cl.calls < MaxCalls
    /\ cl' = IF cl.retry_attempts >= 1
             THEN [cl EXCEPT !.pc = "attempt", !.attempt = 1, !.sent = 0,
                             !.network_errors = 0, !.calls = @ + 1,
                             !.error = NoError]
             ELSE [cl EXCEPT !.pc = "raised", !.attempt = 0, !.sent = 0,
                             !.network_errors = 0, !.calls = @ + 1,
                             !.error = [kind |-> "MetaAdsAPIError",
                                        status_code |-> -1,
                                        error_code |-> "None"]]
    /\ UNCHANGED clock
    /\ UNCHANGED <<wfVars, monVars, rtVars, dsVars>>

\* one pass of the loop body: session.request, response.json, response.ok
Attempt ==
    /\ cl.pc = "attempt"
    /\ \E o \in AttemptOutcomes :
        cl' = CASE o = "ok" ->
                     [cl EXCEPT !.pc = "returned", !.sent = @ + 1,
                                !.burst = @ + 1]
                [] o = "http_error" ->
                     [cl EXCEPT !.pc = "raised", !.sent = @ + 1,
                                !.burst = @ + 1,
                                !.error = [kind |-> "MetaAdsAPIError",
                                           status_code |-> 400,
                                           error_code |-> "api"]]
                [] o = "value_error" ->
                     [cl EXCEPT !.pc = "raised", !.sent = @ + 1,
                                !.burst = @ + 1,
                                !.error = [kind |-> "ValueError",
                                           status_code |-> -1,
                                           error_code |-> "None"]]
                [] o = "network_error" ->
                     IF IsLastAttempt(cl.attempt, cl.retry_attempts)
                     THEN [cl EXCEPT !.pc = "raised", !.sent = @ + 1,
                                     !.network_errors = @ + 1,
                                     !.burst = @ + 1,
                                     !.error = [kind |-> "MetaAdsAPIError",
                                                status_code |-> 0,
                                                error_code |-> "NETWORK_ERROR"]]
                     ELSE [cl EXCEPT !.pc = "sleep", !.sent = @ + 1,
                                     !.network_errors = @ + 1,
                                     !.burst = @ + 1]
    /\ UNCHANGED clock
    /\ UNCHANGED <<wfVars, monVars, rtVars, dsVars>>

\* time.sleep(self.retry_delay * (2 ** (attempt - 1))), then the next pass;
\* burst counts the requests sent since the client last slept
Backoff ==
    /\ cl.pc = "sleep"
    /\ clock' = clock + RetryDelay * Pow2(cl.attempt - 1)
    /\ cl' = IF cl.attempt + 1 <= cl.retry_attempts
             THEN [cl EXCEPT !.pc = "attempt", !.attempt = @ + 1,
                             !.burst = 0]
             ELSE [cl EXCEPT !.pc = "raised", !.burst = 0,
                             !.error = [kind |-> "MetaAdsAPIError",
                                        status_code |-> -1,
                                        error_code |-> "None"]]
    /\ UNCHANGED <<wfVars, monVars, rtVars, dsVars>>

----------------------------------------------------------------------------
(* BaseMarketingAgent.call_api_with_retry: the tenacity retry wrapper      *)

MaxApiCalls == 3

\* one invocation of api_func: it returns, raises an Exception, or raises a
\* BaseException that is no Exception (asyncio.CancelledError)
ApiOutcomes == {"ok", "error", "cancelled"}

\* the tools the agents hand to call_api_with_retry
ApiFuncs == {"parse_campaign_request", "generate_ad_creative",
             "optimize_campaign_structure"}

NewRetry ==
    [pc |-> "idle", api_func |-> "none",
     attempt_number |-> 0, invoked |-> 0, log |-> << >>,
     last_exc |-> "none", raised |-> "none", waited |-> 0, calls |-> 0]

\* variant: one more attempt before giving up
stop_after_attempt_late(attempt_number) == attempt_number >= 4

\* stop=stop_after_attempt(3)
stop_after_attempt(attempt_number) == attempt_number >= 3

Min(a, b) == IF a < b THEN a ELSE b

Max(a, b) == IF a > b THEN a ELSE b

\* wait=wait_exponential(multiplier=1, min=4, max=10)
wait_exponential(attempt_number) ==
    Max(4, Min(1 * Pow2(attempt_number - 1), 10))

RtInit == rt = NewRetry

\* the decorated coroutine is called: tenacity begins with attempt 1
CallApiWithRetry ==
    /\ rt.pc \in {"idle", "returned", "raised"}
    /\ rt.calls < MaxApiCalls
    /\ \E f \in ApiFuncs :
          rt' = [NewRetry EXCEPT !.pc = "attempt", !.api_func = f,
                                 !.attempt_number = 1,
                                 !.calls = rt.calls + 1]
    /\ UNCHANGED <<wfVars, monVars, clVars, dsVars>>

\* one attempt: return await api_func(...); the except branch logs and
\* re-raises (reading statistics["attempt_number"] raises KeyError instead
\* when the statistics of this call are kept elsewhere); tenacity then
\* stops, or retries when the exception is an Exception
ApiAttempt ==
    /\ rt.pc = "attempt"
    /\ \E o \in ApiOutcomes, stats \in BOOLEAN :
        /\ o # "error" => stats
        /\ rt' =
            CASE o = "ok" ->
                   [rt EXCEPT !.pc = "returned", !.invoked = @ + 1,
                              !.log = Append(@, o)]
              [] o = "cancelled" ->
                   [rt EXCEPT !.pc = "raised", !.invoked = @ + 1,
                              !.log = Append(@, o),
                              !.last_exc = "CancelledError",
                              !.raised = "CancelledError"]
              [] o = "error" ->
                   IF stop_after_attempt(rt.attempt_number)
                   THEN [rt EXCEPT !.pc = "raised", !.invoked = @ + 1,
                                   !.log = Append(@, o),
                                   !.last_exc = IF stats THEN "api_error"
                                                ELSE "KeyError",
                                   !.raised = "RetryError"]
                   ELSE [rt EXCEPT !.pc = "wait", !.invoked = @ + 1,
                                   !.log = Append(@, o),
                                   !.last_exc = IF stats THEN "api_error"
                                                ELSE "KeyError"]
    /\ UNCHANGED <<wfVars, monVars, clVars, dsVars>>

\* tenacity sleeps and starts the next attempt
RetryWait ==
    /\ rt.pc = "wait"
    /\ rt' = [rt EXCEPT !.pc = "attempt",
                        !.waited = @ + wait_exponential(rt.attempt_number),
                        !.attempt_number = @ + 1]
    /\ UNCHANGED <<wfVars, monVars, clVars, dsVars>>

----------------------------------------------------------------------------
(* ultrathink_deployment_system.py: DeploymentSystem                       *)

\* what analyze_system finds: shutil.which of railway, npm and git, and
\* RAILWAY_TOKEN in os.environ
Environments ==
    [railway : BOOLEAN, npm : BOOLEAN, git : BOOLEAN, token : BOOLEAN]

MethodOrder ==
    << "Railway CLI (Direct)", "Railway CLI (Auto-Install)",
       "Railway API (Direct)", "Git-based Deployment",
       "Manual Package Upload", "Web-based Deployment Guide" >>

\* variant: the Git method is appended ahead of the two Railway fallbacks
prepare_deployment_methods_git_first(env) ==
    (IF env.railway THEN << MethodOrder[1] >> ELSE << >>)
        \o << MethodOrder[4], MethodOrder[2], MethodOrder[3],
              MethodOrder[5], MethodOrder[6] >>

\* Railway CLI (Direct) is appended only if shutil.which("railway")
prepare_deployment_methods(env) ==
    (IF env.railway THEN << MethodOrder[1] >> ELSE << >>)
        \o SubSeq(MethodOrder, 2, 6)

pre_check(name, env) ==
    CASE name = "Railway CLI (Direct)"       -> env.railway
      [] name = "Railway CLI (Auto-Install)" -> ~env.railway /\ env.npm
      [] name = "Railway API (Direct)"       -> env.token
      [] name = "Git-based Deployment"       -> env.git
      [] OTHER                               -> TRUE

\* what execute() can report; every execute() catches Exception itself and
\* the Railway API and Git methods only ever write instructions
ExecuteResults(name) ==
    IF name \in {"Railway API (Direct)", "Git-based Deployment"}
    THEN {"failure"}
    ELSE {"success", "failure"}

NewDeployment(env) ==
    [pc |-> "new", env |-> env, deployment_methods |-> << >>, i |-> 0,
     methods_tried |-> << >>, executed |-> << >>, results |-> << >>,
     success |-> FALSE, successful_method |-> "none", errors |-> << >>,
     ret |-> "none"]

DsIdleInit == ds = NewDeployment([railway |-> FALSE, npm |-> FALSE,
                                  git |-> FALSE, token |-> FALSE])

DsInit == \E env \in Environments : ds = NewDeployment(env)

\* run(): analyze_system, then prepare_deployment_methods
PrepareDeploymentMethods ==
    /\ ds.pc = "new"
    /\ ds' = [ds EXCEPT !.pc = "prepared",
                        !.deployment_methods =
                            prepare_deployment_methods(ds.env)]
    /\ UNCHANGED <<wfVars, monVars, clVars, rtVars>>

\* execute_deployment is entered: the for loop starts at the first method
ExecuteDeployment ==
    /\ ds.pc = "prepared"
    /\ ds' = [ds EXCEPT !.pc = "loop", !.i = 1]
    /\ UNCHANGED <<wfVars, monVars, clVars, rtVars>>

\* one pass of the loop whose pre_check fails: logged and skipped
SkipMethod ==
    /\ ds.pc = "loop"
    /\ ds.i <= Len(ds.deployment_methods)
    /\ ~pre_check(ds.deployment_methods[ds.i], ds.env)
    /\ ds' = [ds EXCEPT !.methods_tried =
                            Append(@, ds.deployment_methods[ds.i]),
                        !.i = @ + 1]
    /\ UNCHANGED <<wfVars, monVars, clVars, rtVars>>

\* one pass of the loop whose pre_check holds: execute() runs; the
\* auto-install method may leave the railway command installed
TryMethod ==
    /\ ds.pc = "loop"
    /\ ds.i <= Len(ds.deployment_methods)
    /\ pre_check(ds.deployment_methods[ds.i], ds.env)
    /\ LET name == ds.deployment_methods[ds.i]
       IN  \E result \in ExecuteResults(name), installed \in BOOLEAN :
            /\ installed => name = "Railway CLI (Auto-Install)"
            /\ (name = "Railway CLI (Auto-Install)" /\ result = "success")
                  => installed
            /\ LET d == [ds EXCEPT
                           !.methods_tried = Append(@, name),
                           !.executed = Append(@, name),
                           !.results = Append(@, result),
                           !.env.railway = @ \/ installed]
               IN  ds' =
                     IF result = "success"
                     THEN [d EXCEPT !.success = TRUE,
                                    !.successful_method = name,
                                    !.pc = "returned", !.ret = "True"]
                     ELSE [d EXCEPT !.errors = Append(@, name),
                                    !.i = @ + 1]
    /\ UNCHANGED <<wfVars, monVars, clVars, rtVars>>

\* the loop is exhausted: return False
DeploymentFailed ==
    /\ ds.pc = "loop"
    /\ ds.i > Len(ds.deployment_methods)
    /\ ds' = [ds EXCEPT !.pc = "returned", !.ret = "False"]
    /\ UNCHANGED <<wfVars, monVars, clVars, rtVars>>

----------------------------------------------------------------------------
(* Specifications                                                          *)

Init == WfInit /\ MonInit /\ ClIdleInit /\ RtInit /\ DsIdleInit

Next ==
    \/ ProcessCampaignRequest
    \/ AppCreateCampaign
    \/ VercelPost
    \/ BridgeMain
    \/ SupervisorNode
    \/ ParserNode
    \/ CreativeNode
    \/ BuilderNode
    \/ WorkflowRaises
    \/ DirectReturn
    \/ AppFinish
    \/ AppFallback
    \/ VercelFinish
    \/ VercelFail
    \/ BridgeFinish
    \/ BridgeFail

Spec == Init /\ [][Next]_vars

\* the workflow on its own, called directly or from app.py; a node of the
\* compiled graph that is ready to run is run: ainvoke drives the graph
\* until END
WorkflowNext ==
    \/ ProcessCampaignRequest
    \/ AppCreateCampaign
    \/ SupervisorNode
    \/ ParserNode
    \/ CreativeNode
    \/ BuilderNode
    \/ WorkflowRaises
    \/ DirectReturn
    \/ AppFinish
    \/ AppFallback

NodeStep ==
    \/ SupervisorNode
    \/ ParserNode
    \/ CreativeNode
    \/ BuilderNode

FairWorkflowSpec == Init /\ [][WorkflowNext]_vars /\ WF_vars(NodeStep)

MonitorInit == WfInit /\ MonInit /\ ClIdleInit /\ RtInit /\ DsIdleInit

MonitorNext ==
    \/ StartMonitoring
    \/ HealthLoop
    \/ RunCheck
    \/ Rec416
    \/ Rec417
    \/ Rec419
    \/ Rec423
    \/ Rec430
    \/ MetricsReport
    \/ AlertCheck
    \/ DisplayDashboard
    \/ SignalHandler

SpecMonitor == MonitorInit /\ [][MonitorNext]_vars

ClientInit == WfInit /\ MonInit /\ ClInit /\ RtInit /\ DsIdleInit

ClientNext ==
    \/ Request
    \/ Attempt
    \/ Backoff

SpecClient == ClientInit /\ [][ClientNext]_vars

RetryInit == WfInit /\ MonInit /\ ClIdleInit /\ RtInit /\ DsIdleInit

RetryNext ==
    \/ CallApiWithRetry
    \/ ApiAttempt
    \/ RetryWait

SpecRetry == RetryInit /\ [][RetryNext]_vars

DeployInit == WfInit /\ MonInit /\ ClIdleInit /\ RtInit /\ DsInit

DeployNext ==
    \/ PrepareDeploymentMethods
    \/ ExecuteDeployment
    \/ SkipMethod
    \/ TryMethod
    \/ DeploymentFailed

SpecDeploy == DeployInit /\ [][DeployNext]_vars

----------------------------------------------------------------------------
(* Properties of the campaign workflow                                     *)

Specialists == {"parser", "creative", "builder"}

HasParsedData(s) ==
    /\ ~FieldMissing(s, "campaign_objective")
    /\ ~FieldMissing(s, "budget")
    /\ ~FieldMissing(s, "target_audience")

\* C1: a state returned by process_campaign_request with processing_status
\* "complete" contains campaign_objective, budget, target_audience,
\* ad_creative and campaign_plan.
C1_CompleteImpliesAllFields ==
    (node = "END" /\ wf.processing_status = "complete")
        => validate_completeness(wf)

\* C2: specialists execute in the order parser, creative, builder: creative
\* only starts once the parser has run and left campaign_objective, budget
\* and target_audience in the state, builder only once creative has run and
\* left ad_creative, and no earlier specialist starts after a later one.
C2_SpecialistOrder ==
    /\ node = "parser" => (runs["creative"] = 0 /\ runs["builder"] = 0)
    /\ node = "creative" =>
          (runs["parser"] >= 1 /\ HasParsedData(wf) /\ runs["builder"] = 0)
    /\ node = "builder" =>
          (runs["parser"] >= 1 /\ runs["creative"] >= 1
           /\ HasParsedData(wf) /\ ~FieldMissing(wf, "ad_creative"))

C2_Witness ==
    /\ node = "done"
    /\ runs["parser"] >= 1 /\ runs["creative"] >= 1 /\ runs["builder"] >= 1

\* C3 (as stated): in a single run no node is executed more than once.
C3_NoNodeTwice == \A n \in Nodes : runs[n] <= 1

\* C3 (amended): the supervisor runs before and after every specialist, so
\* it may execute up to 6 times in a run; no specialist executes more
\* than 3 times.
C3_BoundedRepeats ==
    /\ \A n \in Specialists : runs[n] <= 3
    /\ runs["supervisor"] <= 6

C3_Witness ==
    /\ node = "done"
    /\ runs["parser"] = 3
    /\ runs["supervisor"] > 1

TotalRuns ==
    runs["supervisor"] + runs["parser"] + runs["creative"] + runs["builder"]

\* C14: every run of the campaign workflow terminates: whatever the request
\* and whatever the LLM tools return or raise, at most 11 nodes execute
\* (6 supervisor passes, 5 specialist passes) and a run that has started
\* reaches END.
C14_WorkflowTerminates ==
    /\ [](TotalRuns <= 11)
    /\ (node \in Nodes) ~> (node \in {"END", "RAISED"})

C14_Witness ==
    /\ node = "END"
    /\ TotalRuns = 11
    /\ Len(wf.errors) > 2

\* C15: a campaign plan is never built for a budget below the parser's
\* minimum of $5: a state that holds a campaign_plan does not hold a budget
\* below 5, and the parser has not recorded "Budget ... is too low" earlier
\* in the run.
C15_NoPlanForLowBudget ==
    wf.campaign_plan =>
        /\ wf.budget # "low"
        /\ \A i \in 1..Len(wf.errors) : wf.errors[i] # BudgetTooLow

\* C16: whenever the creative agent's process() runs with
\* campaign_objective, target_audience and user_request present,
\* ad_creative is set when the agent returns: the generated creative, or
\* the fallback creative if generation or optimization failed.
C16_CreativeAlwaysSet ==
    [][ ( /\ node = "creative"
          /\ ~FieldMissing(wf, "campaign_objective")
          /\ ~FieldMissing(wf, "target_audience")
          /\ ~FieldMissing(wf, "user_request")
          /\ exc'.agent # "call" )
        => wf'.ad_creative # "none" ]_vars

\* C17: once errors holds more than 2 entries the supervisor's next
\* decision is END, and no parser, creative or builder execution starts in
\* a state that has more than 2 errors.
C17_EndAfterMoreThanTwoErrors ==
    [][ /\ (node = "supervisor" /\ Len(wf.errors) > 2) => node' = "END"
        /\ node' \in Specialists => Len(wf'.errors) <= 2 ]_vars

C17_Witness ==
    /\ node = "END"
    /\ Len(wf.errors) = 3
    /\ wf.next_agent = "None"
    /\ wf.current_agent = "supervisor"
    /\ ~Truthy_creative(wf)

----------------------------------------------------------------------------
(* Properties of the entry points                                          *)

Http == {"app", "vercel"}

Answered(e) == node = "done" /\ req.entry \in e

\* the workflow ran to END / failed before its first node
WorkflowReturned == runs["supervisor"] >= 1

WorkflowRaised == exc.ai \/ exc.outer = "workflow_error"

NonEmptyMessage == req.body = "object" /\ req.msg \notin {"absent", "empty"}

\* C5 (as stated): with a non-empty message the response is LLM-derived
\* whenever OPENAI_API_KEY is set, and is the demo campaign only when the
\* key is not set.
C5_AiWheneverKeySet ==
    (Answered(Http) /\ NonEmptyMessage) =>
        /\ req.key # "unset" => resp.kind = "ai"
        /\ resp.kind = "demo" => req.key = "unset"

KeyUsable ==
    \/ req.entry = "app" /\ req.key = "real"
    \/ req.entry = "vercel" /\ req.key \in {"placeholder", "real"}

\* C5 (amended): with a non-empty message the response is LLM-derived
\* exactly when OPENAI_API_KEY is set (for app.py: and is not the
\* placeholder key) and the workflow returns without raising; the demo
\* campaign is returned only when the key is not set or, in app.py, when
\* the key is the placeholder or the AI workflow raised.
C5_AiWhenKeyUsableAndWorkflowReturns ==
    (Answered(Http) /\ NonEmptyMessage) =>
        /\ (KeyUsable /\ ~WorkflowRaised) => resp.kind = "ai"
        /\ resp.kind = "ai" => (KeyUsable /\ WorkflowReturned)
        /\ resp.kind = "demo" =>
              \/ req.key = "unset"
              \/ req.entry = "app" /\ (req.key = "placeholder" \/ exc.ai)

C5_Witness ==
    /\ Answered({"app"}) /\ NonEmptyMessage
    /\ req.key = "real" /\ resp.kind = "ai" /\ wf.campaign_plan

C7_NoMessageGives400 ==
    (Answered(Http) /\ ~NonEmptyMessage) =>
        /\ resp.status = 400
        /\ resp.kind \notin {"ai", "demo"}

\* C7 (amended): a POST whose body is a JSON object with no non-empty
\* "message" is always rejected with HTTP 400; a body that is not a JSON
\* object is answered with HTTP 500; neither produces a campaign response.
C7_NoMessageRejected ==
    (Answered(Http) /\ ~NonEmptyMessage) =>
        /\ req.body = "object" => (resp.status = 400 /\ resp.kind = "reject")
        /\ req.body # "object" => (resp.status = 500 /\ resp.kind = "error")
        /\ ~WorkflowReturned

C7_Witness ==
    /\ Answered({"app"})
    /\ req.body = "object" /\ req.msg = "empty"
    /\ resp.status = 400

\* C8: an invocation of api_bridge.main with a --message argument writes
\* exactly one JSON object to stdout: success=true with campaign.id and
\* executionTime when the workflow returned, success=false with error and
\* exit status 1 when the workflow raised; nothing is written before then.
C8_BridgeWritesOneObject ==
    (req.entry = "bridge" /\ HasMessageFlag(req.argv)) =>
        /\ node # "done" => out.stdout = << >>
        /\ node = "done" =>
              /\ Len(out.stdout) = 1
              /\ WorkflowReturned =>
                    /\ out.stdout[1].success = "true"
                    /\ out.stdout[1].campaign_id
                    /\ out.stdout[1].executionTime
              /\ WorkflowRaised =>
                    /\ out.stdout[1].success = "false"
                    /\ out.stdout[1].error
                    /\ out.exit = 1

C8_Witness ==
    /\ Answered({"bridge"})
    /\ WorkflowRaised
    /\ Len(out.stdout) = 1 /\ out.exit = 1

----------------------------------------------------------------------------
(* Properties of the deployment monitor                                    *)

\* C9 (as stated): no data structure is read by one thread while another
\* thread is part-way through updating it.
C9_NoReadDuringUpdate ==
    seen.reader # "none" =>
        /\ ~seen.during_update
        /\ seen.checks_performed = seen.history_len

\* C9 (amended): DeploymentMonitor.metrics is shared by the monitor threads
\* and can be read while _record_check_result is part-way through updating
\* it; but it has a single writer: only a step of the health-check thread
\* inside _record_check_result ever changes it.
C9_SingleWriter ==
    [][ metrics' # metrics =>
           /\ hc.pc \in {"L416", "L417", "L419", "L423", "L430"}
           /\ hc'.pc # hc.pc
           /\ UNCHANGED <<seen, alert, monitoring>> ]_vars

C9_Witness ==
    /\ seen.reader = "reporter"
    /\ seen.during_update
    /\ seen.checks_performed > seen.history_len
    /\ metrics.checks_performed = Len(metrics.status_history)

----------------------------------------------------------------------------
(* Properties of MetaAdsClient._request                                    *)

Finished == cl.pc \in {"returned", "raised"}

\* C10: a _request call whose every attempt fails with a network error
\* makes exactly retry_attempts attempts, never more, and then raises
\* MetaAdsAPIError with status_code 0 and error_code "NETWORK_ERROR".
C10_NetworkErrorRetries ==
    /\ cl.sent <= cl.retry_attempts
    /\ (Finished /\ cl.network_errors >= 1 /\ cl.network_errors = cl.sent) =>
          /\ cl.sent = cl.retry_attempts
          /\ cl.pc = "raised"
          /\ cl.error = [kind |-> "MetaAdsAPIError", status_code |-> 0,
                         error_code |-> "NETWORK_ERROR"]

C10_Witness ==
    /\ cl.pc = "raised"
    /\ cl.retry_attempts = 3
    /\ cl.network_errors = 3
    /\ cl.error.error_code = "NETWORK_ERROR"
    /\ clock >= 3

\* C11: MetaAdsClient limits its own request rate: however quickly its
\* methods are called, the number of requests it sends in a time window is
\* bounded by the client. Here the window is the shortest one, the requests
\* sent since the client last waited, and the callers make MaxCalls calls
\* at once: a rate limit makes at least one of them wait.
C11_RequestRateBounded == cl.burst < MaxCalls

----------------------------------------------------------------------------
(* Properties of call_api_with_retry                                       *)

Failures(log) == Cardinality({i \in 1..Len(log) : log[i] # "ok"})

\* C12: call_api_with_retry invokes the wrapped function at most 3 times
\* per call; it returns the first successful result (every invocation
\* before the one returned from has failed, none follows it) and after a
\* third consecutive failure it stops retrying and raises to its caller.
C12_AtMostThreeAttempts ==
    /\ rt.invoked <= 3
    /\ rt.invoked = Len(rt.log)
    /\ rt.pc = "returned" =>
          /\ rt.log[Len(rt.log)] = "ok"
          /\ Failures(rt.log) = Len(rt.log) - 1
    /\ rt.pc # "returned" => Failures(rt.log) = Len(rt.log)
    /\ Failures(rt.log) = 3 => (rt.pc = "raised" /\ rt.raised # "none")

C12_Witness ==
    /\ rt.pc = "raised"
    /\ rt.invoked = 3
    /\ rt.log = <<"error", "error", "error">>
    /\ rt.raised = "RetryError"
    /\ rt.waited = 8

----------------------------------------------------------------------------
(* Properties of DeploymentSystem.execute_deployment                       *)

ClaimedOrder ==
    << "Railway CLI (Direct)", "Railway CLI (Auto-Install)",
       "Railway API (Direct)", "Git-based Deployment",
       "Manual Package Upload", "Web-based Deployment Guide" >>

Pos(name) == CHOOSE k \in 1..Len(ClaimedOrder) : ClaimedOrder[k] = name

InClaimedOrder(s) ==
    \A a, b \in 1..Len(s) : a < b => Pos(s[a]) < Pos(s[b])

\* C13: execute_deployment tries the prepared methods strictly in the order
\* Railway CLI, auto-install, Railway API, Git, manual package, web guide;
\* it returns True at the first method whose execute() reports success,
\* with that method recorded as successful_method, and no method is
\* executed after a success; it returns False only when every prepared
\* method was tried and none succeeded.
C13_FallbackOrder ==
    /\ InClaimedOrder(ds.methods_tried)
    /\ InClaimedOrder(ds.executed)
    /\ ds.pc = "loop" =>
          ds.methods_tried = SubSeq(ds.deployment_methods, 1, ds.i - 1)
    /\ \A k \in 1..Len(ds.results) :
          ds.results[k] = "success" =>
             /\ k = Len(ds.results)
             /\ ds.pc = "returned" /\ ds.ret = "True"
             /\ ds.success
             /\ ds.successful_method = ds.executed[k]
    /\ ds.ret = "True" =>
          /\ ds.results # << >>
          /\ ds.results[Len(ds.results)] = "success"
    /\ ds.ret = "False" =>
          /\ ds.methods_tried = ds.deployment_methods
          /\ ~ds.success

C13_Witness ==
    /\ ds.pc = "returned" /\ ds.ret = "True"
    /\ ds.successful_method = "Manual Package Upload"
    /\ ds.executed = << "Railway CLI (Auto-Install)", "Railway API (Direct)",
                        "Git-based Deployment", "Manual Package Upload" >>
    /\ ds.results = << "failure", "failure", "failure", "success" >>

====
